---- MODULE Spec2Model ----
(***************************************************************************)
(* A model of noseprogressive/plugin.py (ProgressivePlugin).               *)
(*                                                                         *)
(*   Spec        prepareTest: traversal, bucketing by fixtures, rebuild    *)
(*   SpecGuard   begin / finalize: the saved-target stacks, the debugger   *)
(*   SpecLoader  prepareTestLoader / capture_suite / prepareTestRunner     *)
(*   SpecBar     prepareTestRunner and the run's progress bar              *)
(*   SpecPermissive  prepareTest on nodes that lack a context or fixtures  *)
(*   SpecAgain   prepareTest applied again to the container it returned    *)
(***************************************************************************)
EXTENDS Integers, Sequences, FiniteSets, TLC

VARIABLES
    \* ---- the suite tree handed to prepareTest (owned by the host loader)
    nNodes,        \* the nodes of the tree are 1..nNodes, the root is 1
    hasTests,      \* node -> whether the object has a _tests attribute
    tests,         \* node -> its _tests list (<<>> where there is none)
    hasFixtures,   \* node -> "absent" (no such attribute) | "no" | "yes"
    context,       \* node -> the object its .context refers to
    flags,         \* context -> its two _fg_should_*_fixtures attributes
    \* ---- what prepareTest leaves behind
    visited,       \* the nodes passed to base_callable, in call order
    buckets,       \* Bucketer.buckets: frozenset of fixtures -> list of nodes
    keyOrder,      \* the order in which buckets.iteritems() yielded the keys
    rebuilt,       \* the list wrapped by the returned ContextSuite
    pc,
    \* ---- the process-wide targets and each plugin instance's saved ones
    glob,          \* sys.stderr, sys.stdout, pdb.set_trace, pdb.Pdb.cmdloop
    saved,         \* instance -> its lists _stderr, _stdout, _set_trace, _cmdloop
    cwd,           \* instance -> whether self._cwd has been set
    raised,        \* the exception that left a plugin method, or "none"
    nBegins,       \* number of begin() calls so far
    \* ---- the test loader, the count of tests and the runner
    loaderHas,     \* hasattr(loader, 'loadTestsFromNames')
    layers,        \* the capture_suite wrappers around loadTestsFromNames:
                   \* the instance each one adds to, innermost first
    totals,        \* instance -> self._totalTests
    origLog,       \* the original method's invocations: arguments, and the
                   \* number of tests in the suite each one produced
    iterated,      \* the produced suites that countTestCases() went through
    capLog,        \* the capture_suite invocations
    loadLog,       \* the calls of loader.loadTestsFromNames by the host
    runner,        \* the ProgressiveRunner made by prepareTestRunner, if any
    \* ---- the runner's progress bar
    barStarted,    \* whether the run has started
    barTotal,      \* the total the bar was started with
    completed,     \* the outcomes recorded so far
    outcomes,      \* outcome kind -> how many of them were recorded
    ratio,         \* the completion ratio shown, <<numerator, denominator>>
    \* ---- the progress bar and the debugger sessions in progress
    dbg,           \* the stack of debugger sessions
    suspendDepth,  \* how many times the bar is suspended
    \* ---- history
    act,           \* the begin() calls not yet undone: who, and what it displaced
    nested,        \* every finalize() so far undid the innermost begin()
    lastOp,        \* the last plugin operation
    dbgPeak        \* the deepest debugger nesting since the last begin()

suiteVars == <<nNodes, hasTests, tests, hasFixtures, context, flags,
               visited, buckets, keyOrder, rebuilt, pc>>

guardVars == <<glob, saved, cwd, raised, nBegins, dbg, suspendDepth,
               act, nested, lastOp, dbgPeak>>

loaderVars == <<loaderHas, layers, totals, origLog, iterated, capLog,
                loadLog, runner>>

barVars == <<barStarted, barTotal, completed, outcomes, ratio>>

vars == <<suiteVars, guardVars, loaderVars, barVars>>

----------------------------------------------------------------------------
(* Bounds *)
MaxNodes == 4
MaxBegins == 4
MaxDbg == 2
MaxOrigCalls == 4
MaxTotal == 10
MaxOutcomes == 7

----------------------------------------------------------------------------
(* The host's contexts (test classes / modules) and their fixtures lists.  *)
(* Two distinct contexts list the same fixtures in a different order.      *)

NoneCtx == "None"
Contexts == {"K_AB", "K_BA", "K_A", "K_E"}
ContextRefs == Contexts \cup {NoneCtx}

\* getattr(ctx, 'fixtures', []) : None has no such attribute
FixturesOf(ctx) ==
    CASE ctx = "K_AB" -> <<"A", "B">>
      [] ctx = "K_BA" -> <<"B", "A">>
      [] ctx = "K_A"  -> <<"A">>
      [] ctx = "K_E"  -> <<>>
      [] OTHER        -> <<>>

\* a node that has no `context` attribute at all
NoAttr == "NoAttr"

\* test.context: an attribute read, which raises when the attribute is absent
HasContext(test) == context[test] # NoAttr

Unset == "unset"
FlagValues == {Unset, "True", "False"}
NoFlags == [c \in Contexts |-> [setup |-> Unset, teardown |-> Unset]]

----------------------------------------------------------------------------
(* Helpers on sequences *)

RECURSIVE SortedSeq(_)
SortedSeq(S) ==
    IF S = {} THEN <<>>
    ELSE LET m == CHOOSE x \in S : \A y \in S : x <= y
         IN  <<m>> \o SortedSeq(S \ {m})

RECURSIVE Perms(_)
Perms(S) ==
    IF S = {} THEN {<<>>}
    ELSE UNION {{<<x>> \o p : p \in Perms(S \ {x})} : x \in S}

Range(s) == {s[i] : i \in DOMAIN s}

----------------------------------------------------------------------------
(* prepareTest *)

\* (mutant) a key made of the first listed fixture only
FrozenSetFirstOnly(list) == IF list = <<>> THEN {} ELSE {list[1]}

\* frozenset(list)
FrozenSet(list) == {list[i] : i \in DOMAIN list}

\* (mutant) a traversal that ignores hasFixtures and goes down to the tests
RECURSIVE ProcessTestsToLeaves(_)
RECURSIVE ProcessEachToLeaves(_)
ProcessEachToLeaves(ts) ==
    IF ts = <<>> THEN <<>>
    ELSE ProcessTestsToLeaves(Head(ts)) \o ProcessEachToLeaves(Tail(ts))

ProcessTestsToLeaves(suite) ==
    IF ~hasTests[suite] THEN <<suite>>
    ELSE ProcessEachToLeaves(tests[suite])

\* (mutant) a traversal that also calls back for a suite without children
RECURSIVE ProcessTestsEmptyAsLeaf(_)
RECURSIVE ProcessEachEmptyAsLeaf(_)
ProcessEachEmptyAsLeaf(ts) ==
    IF ts = <<>> THEN <<>>
    ELSE ProcessTestsEmptyAsLeaf(Head(ts)) \o ProcessEachEmptyAsLeaf(Tail(ts))

ProcessTestsEmptyAsLeaf(suite) ==
    IF ~hasTests[suite] \/ tests[suite] = <<>>
         \/ (hasFixtures[suite] # "absent" /\ hasFixtures[suite] = "yes")
    THEN <<suite>>
    ELSE ProcessEachEmptyAsLeaf(tests[suite])

\* process_tests(suite, base_callable): the sequence of base_callable calls
RECURSIVE ProcessTests(_)
RECURSIVE ProcessEach(_)
ProcessEach(ts) ==
    IF ts = <<>> THEN <<>>
    ELSE ProcessTests(Head(ts)) \o ProcessEach(Tail(ts))

ProcessTests(suite) ==
    IF ~hasTests[suite]
         \/ (hasFixtures[suite] # "absent" /\ hasFixtures[suite] = "yes")
    THEN <<suite>>
    ELSE ProcessEach(tests[suite])

\* (mutant) an add that replaces the bucket instead of appending to it
BucketerAddOverwrite(b, test) ==
    LET fixtures == FrozenSet(FixturesOf(context[test]))
    IN  [k \in DOMAIN b \cup {fixtures} |->
            IF k = fixtures THEN <<test>> ELSE b[k]]

\* (mutant) an add that puts the test at the front of its bucket
BucketerAddFront(b, test) ==
    LET fixtures == FrozenSet(FixturesOf(context[test]))
    IN  [k \in DOMAIN b \cup {fixtures} |->
            IF k = fixtures
            THEN <<test>> \o (IF k \in DOMAIN b THEN b[k] ELSE <<>>)
            ELSE b[k]]

\* Bucketer.add(test) on the dict b (a function from keys to lists)
BucketerAdd(b, test) ==
    LET fixtures == FrozenSet(FixturesOf(context[test]))
    IN  IF fixtures \in DOMAIN b
        THEN [b EXCEPT ![fixtures] = Append(@, test)]
        ELSE [k \in DOMAIN b \cup {fixtures} |->
                 IF k = fixtures THEN <<test>> ELSE b[k]]

\* Bucketer() followed by process_tests(suite, bucketer.add)
RECURSIVE AddAll(_, _)
AddAll(b, calls) ==
    IF calls = <<>> THEN b
    ELSE AddAll(BucketerAdd(b, Head(calls)), Tail(calls))

EmptyDict == [k \in {} |-> <<>>]

\* cls.context._fg_should_setup_fixtures = v, for each cls of list in turn
RECURSIVE SetSetup(_, _, _)
SetSetup(f, list, v) ==
    IF list = <<>> THEN f
    ELSE SetSetup([f EXCEPT ![context[Head(list)]].setup = v], Tail(list), v)

RECURSIVE SetTeardown(_, _, _)
SetTeardown(f, list, v) ==
    IF list = <<>> THEN f
    ELSE SetTeardown([f EXCEPT ![context[Head(list)]].teardown = v],
                     Tail(list), v)

\* the body of "if key:" for one fixture_bundle
Annotate(f, bundle) ==
    LET n  == Len(bundle)
        f1 == SetSetup(f, <<bundle[1]>>, "True")
        f2 == SetSetup(f1, SubSeq(bundle, 2, n), "False")
        f3 == SetTeardown(f2, <<bundle[n]>>, "True")
        f4 == SetTeardown(f3, SubSeq(bundle, 1, n - 1), "False")
    IN  f4

\* (mutant) the loop without its "if key:" test
RECURSIVE AnnotateAllNoKeyTest(_, _, _)
AnnotateAllNoKeyTest(f, b, order) ==
    IF order = <<>> THEN f
    ELSE AnnotateAllNoKeyTest(Annotate(f, b[Head(order)]), b, Tail(order))

\* the loop over bucketer.buckets.iteritems(), taking the keys in `order`
RECURSIVE AnnotateAll(_, _, _)
AnnotateAll(f, b, order) ==
    IF order = <<>> THEN f
    ELSE LET key == Head(order)
         IN  AnnotateAll(IF key # {} THEN Annotate(f, b[key]) ELSE f,
                         b, Tail(order))

RECURSIVE Flatten(_, _)
Flatten(b, order) ==
    IF order = <<>> THEN <<>>
    ELSE b[Head(order)] \o Flatten(b, Tail(order))

\* The orders in which a dict may yield its keys: iteritems() of a Python 2
\* dict follows the hash table, not the insertion order.
IterOrders(b) == Perms(DOMAIN b)

Root == 1

\* The index of the first call of `calls` in which Bucketer.add raises
\* (test.context on a node without that attribute), 0 if none does.
FirstRaising(calls) ==
    IF \A i \in DOMAIN calls : HasContext(calls[i]) THEN 0
    ELSE CHOOSE i \in DOMAIN calls :
            /\ ~HasContext(calls[i])
            /\ \A j \in 1..(i - 1) : HasContext(calls[j])

\* suite_sorted_by_fixtures(suite), `calls` being the calls that
\* process_tests(suite, bucketer.add) makes.  An AttributeError raised in
\* Bucketer.add ends the traversal and leaves prepareTest: the buckets hold
\* what was added before, nothing is annotated or flattened.
SuiteSortedByFixtures(calls, done) ==
    LET k == FirstRaising(calls)
        b == AddAll(EmptyDict, calls)
    IN  IF k = 0
        THEN /\ visited' = calls
             /\ buckets' = b
             /\ \E order \in IterOrders(b) :
                   /\ keyOrder' = order
                   /\ flags' = AnnotateAll(flags, b, order)
                   /\ rebuilt' = Flatten(b, order)
             /\ pc' = done
        ELSE /\ visited' = SubSeq(calls, 1, k)
             /\ buckets' = AddAll(EmptyDict, SubSeq(calls, 1, k - 1))
             /\ pc' = "AttributeError"
             /\ UNCHANGED <<keyOrder, flags, rebuilt>>

\* prepareTest(test) = suite_sorted_by_fixtures(test)
PrepareTest ==
    /\ pc = "loaded"
    /\ SuiteSortedByFixtures(ProcessTests(Root), "prepared")
    /\ UNCHANGED <<nNodes, hasTests, tests, hasFixtures, context>>

\* prepareTest applied to the ContextSuite(flattened) that prepareTest
\* returned: its _tests are the rebuilt sequence and, having no context, its
\* hasFixtures() is false, so process_tests goes through its children.
PrepareTestAgain ==
    /\ pc = "prepared"
    /\ SuiteSortedByFixtures(ProcessEach(rebuilt), "again")
    /\ UNCHANGED <<nNodes, hasTests, tests, hasFixtures, context>>

----------------------------------------------------------------------------
(* The suite trees the host loader can hand over *)

\* A test (no _tests, no hasFixtures), a suite that the traversal walks
\* through (its context is never read), or a suite with fixtures.
NodeShapes ==
    {[hasTests |-> FALSE, hasFixtures |-> "absent", context |-> c] :
        c \in ContextRefs}
    \cup {[hasTests |-> TRUE, hasFixtures |-> h, context |-> NoneCtx] :
        h \in {"absent", "no"}}
    \cup {[hasTests |-> TRUE, hasFixtures |-> "yes", context |-> c] :
        c \in Contexts}

ParentMaps(n) == {p \in [2..n -> 1..n] : \A k \in 2..n : p[k] < k}

RECURSIVE AncestorsIn(_, _)
AncestorsIn(p, k) == IF k = 1 THEN {} ELSE {p[k]} \cup AncestorsIn(p, p[k])

\* What lies below a suite with fixtures is never read by prepareTest: there
\* the tree keeps one representative, made of plain tests and plain suites.
PlainShape(isParent) ==
    [hasTests |-> isParent, hasFixtures |-> "absent", context |-> NoneCtx]

SuiteInit ==
    /\ nNodes \in 1..MaxNodes
    /\ \E p \in ParentMaps(nNodes) :
       \E shape \in [1..nNodes -> NodeShapes] :
          /\ \A k \in 2..nNodes : shape[p[k]].hasTests
          /\ \A k \in 2..nNodes :
                (\E a \in AncestorsIn(p, k) : shape[a].hasFixtures = "yes")
                    => shape[k] = PlainShape(\E j \in 2..nNodes : p[j] = k)
          /\ hasTests = [k \in 1..nNodes |-> shape[k].hasTests]
          /\ hasFixtures = [k \in 1..nNodes |-> shape[k].hasFixtures]
          /\ context = [k \in 1..nNodes |-> shape[k].context]
          /\ tests = [k \in 1..nNodes |->
                        SortedSeq({j \in 2..nNodes : p[j] = k})]
    /\ flags = NoFlags
    /\ visited = <<>>
    /\ buckets = EmptyDict
    /\ keyOrder = <<>>
    /\ rebuilt = <<>>
    /\ pc = "loaded"

\* A context object that has no `fixtures` attribute
NoFixturesAttr == "K_N"

\* Trees some of whose tests lack a capability: no context attribute, a
\* context that is None, or a context without a fixtures attribute.
PermissiveShapes ==
    {[hasTests |-> FALSE, hasFixtures |-> "absent", context |-> c] :
        c \in {NoneCtx, NoAttr, NoFixturesAttr, "K_AB"}}
    \cup {[hasTests |-> TRUE, hasFixtures |-> h, context |-> NoneCtx] :
        h \in {"absent", "no"}}
    \cup {[hasTests |-> TRUE, hasFixtures |-> "yes", context |-> "K_AB"]}

\* A tree of nodes of the given shapes, handed to prepareTest
LoadedTree(Shapes) ==
    /\ nNodes \in 1..MaxNodes
    /\ \E p \in ParentMaps(nNodes) :
       \E shape \in [1..nNodes -> Shapes] :
          /\ \A k \in 2..nNodes : shape[p[k]].hasTests
          /\ \A k \in 2..nNodes :
                (\E a \in AncestorsIn(p, k) : shape[a].hasFixtures = "yes")
                    => shape[k] = PlainShape(\E j \in 2..nNodes : p[j] = k)
          /\ hasTests = [k \in 1..nNodes |-> shape[k].hasTests]
          /\ hasFixtures = [k \in 1..nNodes |-> shape[k].hasFixtures]
          /\ context = [k \in 1..nNodes |-> shape[k].context]
          /\ tests = [k \in 1..nNodes |->
                        SortedSeq({j \in 2..nNodes : p[j] = k})]
    /\ visited = <<>>
    /\ buckets = EmptyDict
    /\ keyOrder = <<>>
    /\ rebuilt = <<>>
    /\ pc = "loaded"

PermissiveInit ==
    /\ LoadedTree(PermissiveShapes)
    /\ flags = [c \in Contexts \cup {NoFixturesAttr} |->
                   [setup |-> Unset, teardown |-> Unset]]

\* The trees rebuilt twice: tests of two classes with the same fixtures, of
\* a class with none and without a class, plain suites, and suites with
\* fixtures of two different keys.
AgainShapes ==
    {[hasTests |-> FALSE, hasFixtures |-> "absent", context |-> c] :
        c \in {NoneCtx, "K_AB", "K_BA", "K_E"}}
    \cup {[hasTests |-> TRUE, hasFixtures |-> "absent", context |-> NoneCtx]}
    \cup {[hasTests |-> TRUE, hasFixtures |-> "yes", context |-> c] :
        c \in {"K_AB", "K_A"}}

AgainInit ==
    /\ LoadedTree(AgainShapes)
    /\ flags = NoFlags

----------------------------------------------------------------------------
(* begin / finalize *)

\* "the calls to begin/finalize end up like this: a call to begin() on
\* instance A of the plugin, then a paired begin/finalize for each test on
\* instance B, then a final call to finalize() on instance A"
Instances == {"A", "B"}

TargetNames == {"stderr", "stdout", "set_trace", "cmdloop"}

\* A target is the list of what it is made of: the original object, then
\* one entry per StreamWrapper around it.
OrigTargets ==
    [stderr    |-> <<"sys.stderr">>,
     stdout    |-> <<"sys.stdout">>,
     set_trace |-> <<"pdb.set_trace">>,
     cmdloop   |-> <<"pdb.Pdb.cmdloop">>]

\* StreamWrapper(stream, plugin)
StreamWrapper(stream, plugin) == Append(stream, plugin)

\* noseprogressive.wrapping.set_trace and .cmdloop
WrappingHooks ==
    [set_trace |-> <<"wrapping.set_trace">>, cmdloop |-> <<"wrapping.cmdloop">>]

NoSaved == [t \in TargetNames |-> <<>>]

NoOp == [op |-> "none", inst |-> "none", hadSaved |-> FALSE]

Last(s) == s[Len(s)]
Front(s) == SubSeq(s, 1, Len(s) - 1)

\* the position in act of the latest begin() of instance i, 0 if none
LatestOf(i) ==
    IF \E k \in DOMAIN act : act[k].inst = i
    THEN CHOOSE k \in DOMAIN act :
            act[k].inst = i /\ \A m \in DOMAIN act : act[m].inst = i => m <= k
    ELSE 0

Without(s, k) == SubSeq(s, 1, k - 1) \o SubSeq(s, k + 1, Len(s))

\* (mutant) a begin that leaves the debugger's entry points alone
BeginNoPdbHooks(i) ==
    /\ raised = "none"
    /\ dbg = <<>>
    /\ nBegins < MaxBegins
    /\ saved' = [saved EXCEPT ![i] = [t \in TargetNames |-> Append(@[t], glob[t])]]
    /\ glob' = [glob EXCEPT !.stderr = StreamWrapper(glob.stderr, i),
                            !.stdout = StreamWrapper(glob.stdout, i)]
    /\ cwd' = [cwd EXCEPT ![i] = "set"]
    /\ nBegins' = nBegins + 1
    /\ act' = Append(act, [inst |-> i, displaced |-> glob])
    /\ lastOp' = [op |-> "begin", inst |-> i, hadSaved |-> saved[i].stderr # <<>>]
    /\ dbgPeak' = 0
    /\ UNCHANGED <<raised, dbg, suspendDepth, nested>>

\* ProgressivePlugin.begin on instance i
Begin(i) ==
    /\ raised = "none"
    /\ dbg = <<>>
    /\ nBegins < MaxBegins
    /\ saved' = [saved EXCEPT ![i] = [t \in TargetNames |-> Append(@[t], glob[t])]]
    /\ glob' = [stderr    |-> StreamWrapper(glob.stderr, i),
                stdout    |-> StreamWrapper(glob.stdout, i),
                set_trace |-> WrappingHooks.set_trace,
                cmdloop   |-> WrappingHooks.cmdloop]
    /\ cwd' = [cwd EXCEPT ![i] = "set"]
    /\ nBegins' = nBegins + 1
    /\ act' = Append(act, [inst |-> i, displaced |-> glob])
    /\ lastOp' = [op |-> "begin", inst |-> i, hadSaved |-> saved[i].stderr # <<>>]
    /\ dbgPeak' = 0
    /\ UNCHANGED <<raised, dbg, suspendDepth, nested>>

\* (mutant) a finalize that takes the oldest saved targets (pop(0))
FinalizePopFirst(i) ==
    /\ raised = "none"
    /\ dbg = <<>>
    /\ lastOp' = [op |-> "finalize", inst |-> i, hadSaved |-> saved[i].stderr # <<>>]
    /\ IF saved[i].stderr = <<>>
       THEN /\ raised' = "IndexError"
            /\ UNCHANGED <<glob, saved, act, nested>>
       ELSE /\ glob' = [t \in TargetNames |-> Head(saved[i][t])]
            /\ saved' = [saved EXCEPT ![i] = [t \in TargetNames |-> Tail(@[t])]]
            /\ nested' = (nested /\ Last(act).inst = i)
            /\ act' = Without(act, LatestOf(i))
            /\ UNCHANGED raised
    /\ UNCHANGED <<cwd, nBegins, dbg, suspendDepth, dbgPeak>>

\* (mutant) a finalize that returns quietly when it has nothing saved
FinalizeQuiet(i) ==
    /\ raised = "none"
    /\ dbg = <<>>
    /\ lastOp' = [op |-> "finalize", inst |-> i, hadSaved |-> saved[i].stderr # <<>>]
    /\ IF saved[i].stderr = <<>>
       THEN UNCHANGED <<glob, saved, act, nested>>
       ELSE /\ glob' = [t \in TargetNames |-> Last(saved[i][t])]
            /\ saved' = [saved EXCEPT ![i] = [t \in TargetNames |-> Front(@[t])]]
            /\ nested' = (nested /\ Last(act).inst = i)
            /\ act' = Without(act, LatestOf(i))
    /\ UNCHANGED <<raised, cwd, nBegins, dbg, suspendDepth, dbgPeak>>

\* ProgressivePlugin.finalize on instance i.  self._stderr.pop() on an empty
\* list raises IndexError before anything is assigned; the four lists of an
\* instance always have the same length.
Finalize(i) ==
    /\ raised = "none"
    /\ dbg = <<>>
    /\ lastOp' = [op |-> "finalize", inst |-> i, hadSaved |-> saved[i].stderr # <<>>]
    /\ IF saved[i].stderr = <<>>
       THEN /\ raised' = "IndexError"
            /\ UNCHANGED <<glob, saved, act, nested>>
       ELSE /\ glob' = [t \in TargetNames |-> Last(saved[i][t])]
            /\ saved' = [saved EXCEPT ![i] = [t \in TargetNames |-> Front(@[t])]]
            /\ nested' = (nested /\ Last(act).inst = i)
            /\ act' = Without(act, LatestOf(i))
            /\ UNCHANGED raised
    /\ UNCHANGED <<cwd, nBegins, dbg, suspendDepth, dbgPeak>>

----------------------------------------------------------------------------
(* The debugger entry points and the bar's suspension (the replaced hooks   *)
(* of noseprogressive.wrapping and the bar of noseprogressive.runner).      *)
(* A debugger session is a nested synchronous call inside a test: no        *)
(* begin() or finalize() runs while one is open.                            *)

Hooks == {"set_trace", "cmdloop"}

\* the bar's suspend() and resume(): a depth, not a boolean
Suspend(depth) == depth + 1
Resume(depth) == depth - 1

\* pdb.set_trace() or Pdb.cmdloop() is called: through the replaced hook
\* the bar is suspended before the first exchange with the user
EnterDebugger(h) ==
    /\ raised = "none"
    /\ Len(dbg) < MaxDbg
    /\ LET wrapped == glob[h] = WrappingHooks[h]
       IN  /\ dbg' = Append(dbg, [hook |-> h, wrapped |-> wrapped,
                                  active |-> nested /\ act # <<>>])
           /\ suspendDepth' = IF wrapped THEN Suspend(suspendDepth)
                              ELSE suspendDepth
    /\ dbgPeak' = IF Len(dbg') > dbgPeak THEN Len(dbg') ELSE dbgPeak
    /\ lastOp' = [op |-> "enter", inst |-> h, hadSaved |-> FALSE]
    /\ UNCHANGED <<glob, saved, cwd, raised, nBegins, act, nested>>

\* the innermost session ends, by returning or by an exception passing
\* through it: the replaced hook resumes the bar either way
ExitDebugger(how) ==
    /\ raised = "none"
    /\ dbg # <<>>
    /\ dbg' = Front(dbg)
    /\ suspendDepth' = IF Last(dbg).wrapped THEN Resume(suspendDepth)
                       ELSE suspendDepth
    /\ lastOp' = [op |-> "exit", inst |-> how, hadSaved |-> FALSE]
    /\ UNCHANGED <<glob, saved, cwd, raised, nBegins, act, nested, dbgPeak>>

GuardInit ==
    /\ glob = OrigTargets
    /\ saved = [i \in Instances |-> NoSaved]
    /\ cwd = [i \in Instances |-> "unset"]
    /\ raised = "none"
    /\ nBegins = 0
    /\ dbg = <<>>
    /\ suspendDepth = 0
    /\ act = <<>>
    /\ nested = TRUE
    /\ lastOp = NoOp
    /\ dbgPeak = 0

\* one suite, not yet prepared
SuiteIdle ==
    /\ nNodes = 1
    /\ hasTests = <<FALSE>>
    /\ tests = << <<>> >>
    /\ hasFixtures = <<"absent">>
    /\ context = <<NoneCtx>>
    /\ flags = NoFlags
    /\ visited = <<>>
    /\ buckets = EmptyDict
    /\ keyOrder = <<>>
    /\ rebuilt = <<>>
    /\ pc = "loaded"


----------------------------------------------------------------------------
(* The runner's progress bar (noseprogressive.runner and its bar): started  *)
(* with the total prepareTestRunner handed over, then fed one outcome per   *)
(* finished test.                                                           *)

OutcomeKinds == {"pass", "fail", "error", "skip", "deprecated"}

NoOutcomes == [k \in OutcomeKinds |-> 0]

Min(a, b) == IF a <= b THEN a ELSE b

\* The ratios the bar may show for `done` outcomes out of `total`: the
\* quotient, clamped to [0, 1].  With a total of 0 there is no quotient and
\* either end of the interval may be shown.
Ratios(done, total) ==
    IF total > 0 THEN {<<Min(done, total), total>>}
    ELSE {<<0, 1>>, <<1, 1>>}

\* start(total): the run begins with the runner prepareTestRunner made
StartBar ==
    /\ raised = "none"
    /\ runner # <<>>
    /\ ~barStarted
    /\ barStarted' = TRUE
    /\ barTotal' = runner[1].total
    /\ completed' = 0
    /\ outcomes' = NoOutcomes
    /\ ratio' \in Ratios(0, runner[1].total)

\* recordOutcome(kind)
RecordOutcome(kind) ==
    /\ raised = "none"
    /\ barStarted
    /\ completed < MaxOutcomes
    /\ outcomes' = [outcomes EXCEPT ![kind] = @ + 1]
    /\ completed' = completed + 1
    /\ ratio' \in Ratios(completed + 1, barTotal)
    /\ UNCHANGED <<barStarted, barTotal>>

BarIdle ==
    /\ barStarted = FALSE
    /\ barTotal = 0
    /\ completed = 0
    /\ outcomes = NoOutcomes
    /\ ratio = <<0, 1>>

----------------------------------------------------------------------------
(* prepareTestLoader / capture_suite / prepareTestRunner *)

\* what the host asks the loader for
Names == {"names1", "names2"}

\* the number of tests in a suite the original method produces; two
\* invocations with the same arguments may produce different suites
Counts == {0, 1, 2}

RECURSIVE Pow2(_)
Pow2(n) == IF n = 0 THEN 1 ELSE 2 * Pow2(n - 1)

\* The original loader.loadTestsFromNames(*args): a new suite each time,
\* the k-th of this call holding cs[k] tests.  A suite is named by its
\* position in origLog.
OrigMethod(st, args, cs) ==
    [st  |-> [st EXCEPT !.orig = Append(@, [args |-> args, count |-> cs[st.k]]),
                        !.k = @ + 1],
     res |-> Len(st.orig) + 1]

\* (mutant) a capture_suite that loads once, counts the suite and returns it
RECURSIVE CaptureSuiteOnce(_, _, _, _)
CaptureSuiteOnce(d, st, args, cs) ==
    LET self == layers[d]
        r1   == IF d = 1 THEN OrigMethod(st, args, cs)
                ELSE CaptureSuiteOnce(d - 1, st, args, cs)
        n    == r1.st.orig[r1.res].count
    IN  [st  |-> [r1.st EXCEPT !.iter = @ \cup {r1.res},
                               !.tot[self] = @ + n,
                               !.cap = Append(@, [self |-> self, args |-> args,
                                                  counted |-> r1.res,
                                                  returned |-> r1.res])],
         res |-> r1.res]

\* capture_suite(orig_method, *args) as installed by the d-th wrapping:
\* orig_method is what loadTestsFromNames was before that wrapping
RECURSIVE CaptureSuite(_, _, _, _)
CaptureSuite(d, st, args, cs) ==
    LET self == layers[d]
        \* self._totalTests += orig_method(*args, **kwargs).countTestCases()
        r1   == IF d = 1 THEN OrigMethod(st, args, cs)
                ELSE CaptureSuite(d - 1, st, args, cs)
        n    == r1.st.orig[r1.res].count
        st1  == [r1.st EXCEPT !.iter = @ \cup {r1.res}, !.tot[self] = @ + n]
        \* return orig_method(*args, **kwargs)
        r2   == IF d = 1 THEN OrigMethod(st1, args, cs)
                ELSE CaptureSuite(d - 1, st1, args, cs)
    IN  [st  |-> [r2.st EXCEPT !.cap = Append(@, [self |-> self, args |-> args,
                                                  counted |-> r1.res,
                                                  returned |-> r2.res])],
         res |-> r2.res]

\* ProgressivePlugin.prepareTestLoader on instance i
PrepareTestLoader(i) ==
    /\ raised = "none"
    /\ Len(origLog) + Pow2(Len(layers) + 1) <= MaxOrigCalls
    /\ layers' = IF loaderHas THEN Append(layers, i) ELSE layers
    /\ UNCHANGED <<loaderHas, totals, origLog, iterated, capLog, loadLog, runner>>

\* the host calls loader.loadTestsFromNames(args)
LoadTestsFromNames(args) ==
    /\ raised = "none"
    /\ loaderHas
    /\ Len(origLog) + Pow2(Len(layers)) <= MaxOrigCalls
    /\ \E cs \in [1..Pow2(Len(layers)) -> Counts] :
          LET st0 == [orig |-> origLog, iter |-> iterated, tot |-> totals,
                      cap |-> capLog, k |-> 1]
              r   == IF layers = <<>> THEN OrigMethod(st0, args, cs)
                     ELSE CaptureSuite(Len(layers), st0, args, cs)
          IN  /\ origLog' = r.st.orig
              /\ iterated' = r.st.iter
              /\ totals' = r.st.tot
              /\ capLog' = r.st.cap
              /\ loadLog' = Append(loadLog,
                                   [args |-> args, depth |-> Len(layers),
                                    before |-> Len(origLog),
                                    returned |-> r.res])
    /\ UNCHANGED <<loaderHas, layers, runner>>

\* (mutant) a prepareTestRunner that hands the runner no total
PrepareTestRunnerNoTotal(i) ==
    /\ raised = "none"
    /\ IF cwd[i] = "unset"
       THEN /\ raised' = "AttributeError"
            /\ UNCHANGED runner
       ELSE /\ runner' = <<[by |-> i, total |-> 0, caps |-> Len(capLog)]>>
            /\ UNCHANGED raised
    /\ UNCHANGED <<loaderHas, layers, totals, origLog, iterated, capLog, loadLog>>

\* ProgressivePlugin.prepareTestRunner on instance i: self._cwd exists only
\* after begin() on that instance
PrepareTestRunner(i) ==
    /\ raised = "none"
    /\ IF cwd[i] = "unset"
       THEN /\ raised' = "AttributeError"
            /\ UNCHANGED runner
       ELSE /\ runner' = <<[by |-> i, total |-> totals[i], caps |-> Len(capLog)]>>
            /\ UNCHANGED raised
    /\ UNCHANGED <<loaderHas, layers, totals, origLog, iterated, capLog, loadLog>>

LoaderInit ==
    /\ loaderHas \in BOOLEAN
    /\ layers = <<>>
    /\ totals = [i \in Instances |-> 0]
    /\ origLog = <<>>
    /\ iterated = {}
    /\ capLog = <<>>
    /\ loadLog = <<>>
    /\ runner = <<>>

\* a loader nobody has touched
LoaderIdle ==
    /\ loaderHas = TRUE
    /\ layers = <<>>
    /\ totals = [i \in Instances |-> 0]
    /\ origLog = <<>>
    /\ iterated = {}
    /\ capLog = <<>>
    /\ loadLog = <<>>
    /\ runner = <<>>

guardRest == <<glob, saved, cwd, nBegins, dbg, suspendDepth,
               act, nested, lastOp, dbgPeak>>

LoaderNext ==
    \* begin() comes once per instance here; SpecGuard has the nested calls
    \/ \E i \in Instances :
          cwd[i] = "unset" /\ Begin(i) /\ UNCHANGED <<suiteVars, loaderVars, barVars>>
    \/ \E i \in Instances :
          PrepareTestLoader(i) /\ UNCHANGED <<suiteVars, guardVars, barVars>>
    \/ \E args \in Names :
          LoadTestsFromNames(args) /\ UNCHANGED <<suiteVars, guardVars, barVars>>
    \/ \E i \in Instances :
          PrepareTestRunner(i) /\ UNCHANGED <<suiteVars, guardRest, barVars>>

LoaderSpecInit == SuiteIdle /\ GuardInit /\ LoaderInit /\ BarIdle

SpecLoader == LoaderSpecInit /\ [][LoaderNext]_vars

----------------------------------------------------------------------------
(* The run: the runner made by prepareTestRunner starts the bar and feeds it *)

\* The loader calls are over: instance A has counted some number of tests,
\* possibly none, possibly fewer than will run.
CountedInit ==
    /\ loaderHas = TRUE
    /\ layers = <<>>
    /\ \E t \in 0..MaxTotal :
          totals = [i \in Instances |-> IF i = "A" THEN t ELSE 0]
    /\ origLog = <<>>
    /\ iterated = {}
    /\ capLog = <<>>
    /\ loadLog = <<>>
    /\ runner = <<>>

BarNext ==
    \/ \E i \in Instances :
          cwd[i] = "unset" /\ Begin(i) /\ UNCHANGED <<suiteVars, loaderVars, barVars>>
    \/ \E i \in Instances :
          ~barStarted /\ PrepareTestRunner(i)
              /\ UNCHANGED <<suiteVars, guardRest, barVars>>
    \/ StartBar /\ UNCHANGED <<suiteVars, guardVars, loaderVars>>
    \/ \E kind \in OutcomeKinds :
          RecordOutcome(kind) /\ UNCHANGED <<suiteVars, guardVars, loaderVars>>

BarSpecInit == SuiteIdle /\ GuardInit /\ CountedInit /\ BarIdle

SpecBar == BarSpecInit /\ [][BarNext]_vars

----------------------------------------------------------------------------
(* begin / finalize / debugger sessions *)

GuardNext ==
    \/ \E i \in Instances : Begin(i) /\ UNCHANGED <<suiteVars, loaderVars, barVars>>
    \/ \E i \in Instances : Finalize(i) /\ UNCHANGED <<suiteVars, loaderVars, barVars>>
    \/ \E h \in Hooks : EnterDebugger(h) /\ UNCHANGED <<suiteVars, loaderVars, barVars>>
    \/ \E how \in {"normal", "abnormal"} :
          ExitDebugger(how) /\ UNCHANGED <<suiteVars, loaderVars, barVars>>

GuardSpecInit == SuiteIdle /\ GuardInit /\ LoaderIdle /\ BarIdle

SpecGuard == GuardSpecInit /\ [][GuardNext]_vars

----------------------------------------------------------------------------
(* prepareTest on every suite tree *)

Init == SuiteInit /\ GuardInit /\ LoaderIdle /\ BarIdle

Next == PrepareTest /\ UNCHANGED <<guardVars, loaderVars, barVars>>

Spec == Init /\ [][Next]_vars

AgainNext ==
    \/ PrepareTest /\ UNCHANGED <<guardVars, loaderVars, barVars>>
    \/ PrepareTestAgain /\ UNCHANGED <<guardVars, loaderVars, barVars>>

AgainSpecInit == AgainInit /\ GuardInit /\ LoaderIdle /\ BarIdle

SpecAgain == AgainSpecInit /\ [][AgainNext]_vars

PermissiveSpecInit == PermissiveInit /\ GuardInit /\ LoaderIdle /\ BarIdle

SpecPermissive == PermissiveSpecInit /\ [][Next]_vars

----------------------------------------------------------------------------
(* Vocabulary of the claims about prepareTest, stated without the          *)
(* operators that model it                                                  *)

Count(s, x) == Cardinality({i \in DOMAIN s : s[i] = x})

\* the fixtures a node's context lists (none without a context)
Listed(n) == FixturesOf(context[n])

\* two nodes' contexts list the same fixtures, in whatever order
SameFixtures(a, b) ==
    \A f \in {"A", "B"} :
        (\E i \in DOMAIN Listed(a) : Listed(a)[i] = f)
            <=> (\E i \in DOMAIN Listed(b) : Listed(b)[i] = f)

NoFixtures(n) == Listed(n) = <<>>

\* the entries of s with the same fixtures as n, in the order of s
RECURSIVE SameAs(_, _)
SameAs(s, n) ==
    IF s = <<>> THEN <<>>
    ELSE (IF SameFixtures(n, Head(s)) THEN <<Head(s)>> ELSE <<>>)
             \o SameAs(Tail(s), n)

\* the bucket of node n as the claims describe it: the visited nodes with
\* the same fixtures, in traversal order
BucketOf(n) == SameAs(visited, n)

SetupFlag(n) == flags[context[n]].setup
TeardownFlag(n) == flags[context[n]].teardown

\* tree vocabulary
ParentOf(n) == CHOOSE k \in 1..nNodes : n \in Range(tests[k])

RECURSIVE ProperAncestors(_)
ProperAncestors(n) ==
    IF n = Root THEN {}
    ELSE {ParentOf(n)} \cup ProperAncestors(ParentOf(n))

\* a test, or a container that reports fixtures
StopsTraversal(n) == ~hasTests[n] \/ hasFixtures[n] = "yes"

Coarsest ==
    {n \in 1..nNodes :
        StopsTraversal(n) /\ \A a \in ProperAncestors(n) : ~StopsTraversal(a)}

\* the position of n among its parent's children
ChildIndex(n) ==
    CHOOSE i \in DOMAIN tests[ParentOf(n)] : tests[ParentOf(n)][i] = n

RECURSIVE PathTo(_)
PathTo(n) ==
    IF n = Root THEN <<>> ELSE Append(PathTo(ParentOf(n)), ChildIndex(n))

\* a comes before b in the left-to-right depth-first order
LeftOf(a, b) ==
    LET pa == PathTo(a)
        pb == PathTo(b)
    IN  \E i \in DOMAIN pa \cap DOMAIN pb :
            /\ \A j \in 1..(i - 1) : pa[j] = pb[j]
            /\ pa[i] < pb[i]

Prepared == pc = "prepared"

----------------------------------------------------------------------------
(* C1: the rebuilt sequence is a permutation of the nodes the traversal     *)
(* passed to the callback: each visited node occurs in it exactly once and  *)
(* no other node occurs in it.                                              *)
C1_RebuiltIsPermutation ==
    Prepared =>
        /\ Len(rebuilt) = Len(visited)
        /\ \A n \in 1..nNodes :
              /\ Count(rebuilt, n) = Count(visited, n)
              /\ Count(visited, n) <= 1
        /\ Range(rebuilt) \subseteq 1..nNodes

C1_Witness ==
    /\ Prepared
    /\ Len(visited) >= 3
    /\ rebuilt # visited

(* C2 (as claimed): in every bucket with a non-empty key, exactly the first *)
(* member has the setup flag true, exactly the last has the teardown flag   *)
(* true, and every other flag of its members is false.                      *)
C2_OneSetupOneTeardown ==
    Prepared =>
        \A n \in Range(visited) :
            ~NoFixtures(n) =>
                LET b == BucketOf(n)
                IN  \A i \in DOMAIN b :
                       /\ SetupFlag(b[i]) = (IF i = 1 THEN "True" ELSE "False")
                       /\ TeardownFlag(b[i]) =
                              (IF i = Len(b) THEN "True" ELSE "False")

\* the order in which the fixture keys were first met in the traversal
RECURSIVE FirstMet(_, _)
FirstMet(s, seen) ==
    IF s = <<>> THEN <<>>
    ELSE IF \E m \in seen : SameFixtures(m, Head(s))
         THEN FirstMet(Tail(s), seen)
         ELSE <<Head(s)>> \o FirstMet(Tail(s), seen \cup {Head(s)})

RECURSIVE ConcatBuckets(_)
ConcatBuckets(firsts) ==
    IF firsts = <<>> THEN <<>>
    ELSE BucketOf(Head(firsts)) \o ConcatBuckets(Tail(firsts))

(* C3 (as claimed): the buckets appear in the order in which their key was  *)
(* first met, each with its members in traversal order.                     *)
C3_FirstEncounterOrder ==
    Prepared => rebuilt = ConcatBuckets(FirstMet(visited, {}))

\* the position of node n's key in the order the dict yielded its keys
KeyPos(n) ==
    CHOOSE i \in DOMAIN keyOrder :
        \A f \in {"A", "B"} :
            f \in keyOrder[i] <=> \E j \in DOMAIN Listed(n) : Listed(n)[j] = f

(* C3 (amended): the buckets appear in the order in which the dict of       *)
(* buckets yields its keys, which need not be the order of first encounter; *)
(* within each bucket the members keep their traversal order.               *)
C3_DictOrderMembersStable ==
    Prepared =>
        /\ \A n \in Range(visited) :
              SameAs(rebuilt, n) = BucketOf(n)
        /\ \A i, j \in DOMAIN rebuilt :
              i < j => KeyPos(rebuilt[i]) <= KeyPos(rebuilt[j])

C3_Witness ==
    /\ Prepared
    /\ rebuilt # ConcatBuckets(FirstMet(visited, {}))
    /\ \E n \in Range(visited) : Len(BucketOf(n)) >= 2

\* the example: C1, C2, C3 are the nodes 2, 3, 4, met in this order
IsExample ==
    /\ nNodes = 4
    /\ tests[Root] = <<2, 3, 4>>
    /\ ~StopsTraversal(Root)
    /\ \A n \in 2..4 : StopsTraversal(n)
    /\ context[2] = "K_AB" /\ context[3] = "K_E" /\ context[4] = "K_BA"

ExampleFlags ==
    /\ flags["K_AB"] = [setup |-> "True", teardown |-> "False"]
    /\ flags["K_BA"] = [setup |-> "False", teardown |-> "True"]
    /\ flags["K_E"] = NoFlags["K_E"]

(* C4 (as claimed): in the example the rebuilt order is [C1, C2, C3], C1    *)
(* sets up, C3 tears down and the flags of C2 are unchanged.                *)
C4_ExampleAsClaimed ==
    (IsExample /\ Prepared) => (rebuilt = <<2, 3, 4>> /\ ExampleFlags)

(* C4 (amended): in the example the rebuilt order is [C1, C3, C2] or        *)
(* [C2, C1, C3] (C1 directly before C3), C1 sets up and does not tear down, *)
(* C3 tears down and does not set up, and the flags of C2 are unchanged.    *)
C4_ExampleAmended ==
    (IsExample /\ Prepared) =>
        (rebuilt \in {<<2, 4, 3>>, <<3, 2, 4>>} /\ ExampleFlags)

C4_Witness == IsExample /\ Prepared /\ rebuilt = <<2, 4, 3>>

(* C5: the nodes whose contexts list the same set of fixtures, in whatever  *)
(* order, are contiguous in the rebuilt sequence.                           *)
C5_SameFixturesContiguous ==
    Prepared =>
        \A i, j, k \in DOMAIN rebuilt :
            (i < j /\ j < k /\ SameFixtures(rebuilt[i], rebuilt[k]))
                => SameFixtures(rebuilt[i], rebuilt[j])

C5_Witness ==
    /\ Prepared
    /\ \E i, j, k \in DOMAIN visited :
          /\ i < j /\ j < k
          /\ SameFixtures(visited[i], visited[k])
          /\ Listed(visited[i]) # Listed(visited[k])
          /\ ~SameFixtures(visited[i], visited[j])

(* C6: the callback is invoked exactly once for each coarsest node that is  *)
(* a test or a container reporting fixtures, never for a node below one,    *)
(* and in left-to-right depth-first order.                                  *)
C6_VisitsCoarsestInOrder ==
    Prepared =>
        /\ Range(visited) = Coarsest
        /\ \A n \in Coarsest : Count(visited, n) = 1
        /\ \A i, j \in DOMAIN visited :
              i < j => LeftOf(visited[i], visited[j])

C6_Witness ==
    /\ Prepared
    /\ Len(visited) >= 2
    /\ \E n \in Range(visited) : hasTests[n] /\ tests[n] # <<>>
    /\ \E n \in Range(visited) : ~hasTests[n]

\* The node lacks a capability the rebuild expects of it
LacksCapability(n) == context[n] \in {NoAttr, NoneCtx, NoFixturesAttr}

(* C12 (as claimed): prepareTest never fails on a tree some of whose nodes  *)
(* have no context, a None context or a context without a fixtures          *)
(* attribute: it completes, and every such visited node is in the bucket of *)
(* the empty key.                                                           *)
C12_LackingCapabilityNeverFails ==
    pc # "loaded" =>
        /\ pc = "prepared"
        /\ \A i \in DOMAIN visited :
              LacksCapability(visited[i]) =>
                  {} \in DOMAIN buckets /\ visited[i] \in Range(buckets[{}])

----------------------------------------------------------------------------
(* Claims about the rebuild as a whole *)

FirstPass == pc = "loaded" /\ pc' = "prepared"
SecondPass == pc = "prepared" /\ pc' = "again"

(* C13: a rebuild changes nothing but flags, and only those of contexts of  *)
(* visited nodes with fixtures: the flags of the contexts of the visited    *)
(* nodes without fixtures are as they were on input, the tree (its nodes,   *)
(* child lists and contexts) is unchanged, and the new container lists      *)
(* nodes of that tree.                                                      *)
C13_RebuildFrame ==
    [][(FirstPass \/ SecondPass) =>
          /\ <<nNodes, hasTests, tests, hasFixtures, context>>'
                = <<nNodes, hasTests, tests, hasFixtures, context>>
          /\ Range(rebuilt') \subseteq 1..nNodes
          /\ DOMAIN flags' = DOMAIN flags
          /\ \A c \in DOMAIN flags :
                flags'[c] # flags[c] =>
                    \E i \in DOMAIN visited' :
                        context[visited'[i]] = c /\ ~NoFixtures(visited'[i])
          /\ \A i \in DOMAIN visited' :
                (NoFixtures(visited'[i]) /\ context[visited'[i]] \in DOMAIN flags)
                    => flags'[context[visited'[i]]] = flags[context[visited'[i]]]
      ]_vars

\* a second rebuild has met flags the first one set, beside a node whose
\* context has flags and lists no fixtures
C13_Witness ==
    /\ pc = "again"
    /\ \E i \in DOMAIN visited :
          context[visited[i]] = "K_E" /\ flags["K_E"].setup = Unset
    /\ \E i \in DOMAIN visited :
          ~NoFixtures(visited[i]) /\ SetupFlag(visited[i]) = "True"

\* a container with an empty child list that reports no fixtures
EmptyContainer(n) == hasTests[n] /\ tests[n] = <<>> /\ hasFixtures[n] # "yes"

\* the traversal comes to n: no container above it reports fixtures
Reached(n) == \A a \in ProperAncestors(n) : ~StopsTraversal(a)

(* C14 (as claimed): a container with an empty child list and no fixtures   *)
(* that the traversal comes to is visited exactly once and occurs in the    *)
(* rebuilt sequence.                                                        *)
C14_EmptyContainerVisited ==
    Prepared =>
        \A n \in 1..nNodes :
            (EmptyContainer(n) /\ Reached(n)) =>
                Count(visited, n) = 1 /\ Count(rebuilt, n) = 1

(* C14 (amended): a container with an empty child list and no fixtures is   *)
(* never visited and does not occur in the rebuilt sequence; the visited    *)
(* nodes are tests and containers that report fixtures.                     *)
C14_EmptyContainerDropped ==
    Prepared =>
        /\ \A n \in 1..nNodes :
              EmptyContainer(n) =>
                  Count(visited, n) = 0 /\ Count(rebuilt, n) = 0
        /\ \A i \in DOMAIN visited : StopsTraversal(visited[i])

C14_Witness ==
    /\ Prepared
    /\ rebuilt # <<>>
    /\ \E n \in 1..nNodes : EmptyContainer(n) /\ Reached(n)

\* the fixture key of a node, as a set
KeyOf(n) == {Listed(n)[i] : i \in DOMAIN Listed(n)}

FixtureKeys == (SUBSET {"A", "B"}) \ {{}}

\* a host honours a flag unless it is false
Honoured(v) == v # "False"

HostIdle ==
    [up |-> {}, setups |-> [k \in FixtureKeys |-> 0],
     teardowns |-> [k \in FixtureKeys |-> 0], ok |-> TRUE]

\* The host runs member n: sets its fixtures up if the setup flag says so,
\* runs it, tears them down if the teardown flag says so.  `ok` records that
\* the fixtures of n were set up, and those of no other key, while it ran.
HostRunsMember(st, n) ==
    IF KeyOf(n) = {} THEN [st EXCEPT !.ok = @ /\ Cardinality(st.up) <= 1]
    ELSE LET key == KeyOf(n)
             s1  == IF Honoured(SetupFlag(n))
                    THEN [st EXCEPT !.up = @ \cup {key},
                                    !.setups[key] = @ + 1]
                    ELSE st
             s2  == [s1 EXCEPT !.ok = @ /\ s1.up = {key}]
         IN  IF Honoured(TeardownFlag(n))
             THEN [s2 EXCEPT !.up = @ \ {key}, !.teardowns[key] = @ + 1]
             ELSE s2

RECURSIVE HostRuns(_, _)
HostRuns(st, seq) ==
    IF seq = <<>> THEN st
    ELSE HostRuns(HostRunsMember(st, Head(seq)), Tail(seq))

(* C15 (as claimed): a host that runs the rebuilt sequence in order and     *)
(* honours the flags sets the fixtures of every non-empty key up exactly    *)
(* once and tears them down exactly once, has them set up while each member *)
(* of that key runs, never has the fixtures of two keys set up together,    *)
(* and leaves nothing set up at the end.                                    *)
C15_HostSetsUpOncePerKey ==
    Prepared =>
        LET run == HostRuns(HostIdle, rebuilt)
        IN  /\ run.ok
            /\ run.up = {}
            /\ \A i \in DOMAIN visited :
                  KeyOf(visited[i]) # {} =>
                      /\ run.setups[KeyOf(visited[i])] = 1
                      /\ run.teardowns[KeyOf(visited[i])] = 1

(* C16 (as claimed): prepareTest applied to the container it returned gives *)
(* the same sequence in the same order and leaves every flag as it was.     *)
C16_RebuildIdempotent ==
    [][SecondPass => rebuilt' = rebuilt /\ flags' = flags]_vars

(* C16 (amended): prepareTest applied to the container it returned visits   *)
(* the rebuilt sequence, gives the same nodes with the members of each      *)
(* bucket contiguous and in the same order, and leaves every flag as it     *)
(* was; the order of the buckets is again the order of the dict's keys and  *)
(* may differ from that of the first rebuild.                               *)
C16_RebuildIdempotentUpToKeyOrder ==
    [][SecondPass =>
          /\ flags' = flags
          /\ visited' = rebuilt
          /\ Len(rebuilt') = Len(rebuilt)
          /\ \A n \in Range(rebuilt) :
                /\ SameAs(rebuilt', n) = SameAs(rebuilt, n)
                /\ \E i \in DOMAIN rebuilt' :
                      SubSeq(rebuilt', i, i + Len(SameAs(rebuilt, n)) - 1)
                          = SameAs(rebuilt, n)
      ]_vars

\* a second rebuild of several buckets, one of them of two members, that
\* gives another order than the first
C16_Witness ==
    /\ pc = "again"
    /\ rebuilt # visited
    /\ Cardinality(DOMAIN buckets) >= 2
    /\ \E k \in DOMAIN buckets : k # {} /\ Len(buckets[k]) >= 2

----------------------------------------------------------------------------
(* Claims about begin / finalize and the debugger *)

AllStacksEmpty == \A i \in Instances : \A t \in TargetNames : saved[i][t] = <<>>

(* C7: while the begin/finalize calls are properly nested, each finalize    *)
(* reinstalls exactly the four targets its matching begin displaced; after  *)
(* the last finalize the four targets are the original ones and all the     *)
(* saved-target lists are empty.                                            *)
C7_NestedFinalizeRestores ==
    [][(nested' /\ Len(act') < Len(act)) =>
          /\ glob' = Last(act).displaced
          /\ (act' = <<>> => (glob' = OrigTargets /\ AllStacksEmpty'))]_vars

C7_Witness ==
    /\ nested
    /\ Len(act) = 1 /\ act[1].inst = "A"
    /\ lastOp = [op |-> "finalize", inst |-> "B", hadSaved |-> TRUE]
    /\ nBegins >= 3
    /\ glob.stdout = <<"sys.stdout", "A">>

(* C8 (as claimed): finalize never raises.                                  *)
C8_FinalizeNeverRaises == raised = "none"

(* C8 (amended): finalize returns normally whenever its instance holds a    *)
(* saved target, also when the targets have since been replaced by another  *)
(* activation, and then installs what its own latest begin displaced; with  *)
(* no saved target it raises IndexError and changes nothing.                *)
C8_FinalizeRaisesOnlyWithoutSaved ==
    [][lastOp'.op = "finalize" =>
          IF lastOp'.hadSaved
          THEN /\ raised' = "none"
               /\ glob' = act[LatestOf(lastOp'.inst)].displaced
          ELSE /\ raised' = "IndexError"
               /\ glob' = glob
               /\ saved' = saved]_vars

C8_Witness ==
    /\ lastOp.op = "finalize" /\ lastOp.hadSaved
    /\ ~nested
    /\ raised = "none"
    /\ glob # OrigTargets

(* C10: a debugger entered through either replaced hook suspends the bar,   *)
(* and leaving it resumes the bar however it is left; suspension is counted *)
(* by depth, so with no session open the depth is 0, and once the           *)
(* activations are undone the original targets are back and the saved       *)
(* lists are empty.                                                         *)
C10_DebuggerSuspensionBalanced ==
    /\ suspendDepth = Cardinality({k \in DOMAIN dbg : dbg[k].wrapped})
    /\ \A k \in DOMAIN dbg : dbg[k].active => dbg[k].wrapped
    /\ dbg = <<>> => suspendDepth = 0
    /\ (dbg = <<>> /\ nested /\ act = <<>>) =>
           (glob = OrigTargets /\ AllStacksEmpty)

C10_Witness ==
    /\ dbg = <<>>
    /\ dbgPeak = 2
    /\ suspendDepth = 0
    /\ nested /\ act = <<>>
    /\ lastOp.op = "finalize" /\ lastOp.hadSaved
    /\ glob = OrigTargets

----------------------------------------------------------------------------
(* Claims about the loader and the count of tests *)

\* the tests counted for instance i by the first n capture_suite invocations
RECURSIVE SumCounted(_, _)
SumCounted(i, n) ==
    IF n = 0 THEN 0
    ELSE SumCounted(i, n - 1)
           + (IF capLog[n].self = i THEN origLog[capLog[n].counted].count
              ELSE 0)

\* the original method's invocations made during the k-th call by the host
OrigCallsOf(k) ==
    (IF k = Len(loadLog) THEN Len(origLog) ELSE loadLog[k + 1].before)
        - loadLog[k].before

----------------------------------------------------------------------------
(* Claims about the progress bar *)

(* C11: whatever total the runner was handed (too small, or 0) and whatever *)
(* outcomes are recorded, the ratio shown stays within [0, 1]; while the    *)
(* outcomes do not exceed a positive total it is exactly their quotient, so *)
(* 6 outcomes of a total of 10 show 0.6.  The total is the one the plugin   *)
(* instance counted.                                                        *)
C11_RatioWithinUnitInterval ==
    barStarted =>
        /\ ratio[2] > 0
        /\ 0 <= ratio[1] /\ ratio[1] <= ratio[2]
        /\ barTotal = totals[runner[1].by]
        /\ (barTotal > 0 /\ completed <= barTotal) =>
               ratio[1] * barTotal = completed * ratio[2]
        /\ (barTotal = 10 /\ completed = 6) => 10 * ratio[1] = 6 * ratio[2]

C11_Witness ==
    /\ barStarted
    /\ barTotal = 10
    /\ completed = 6
    /\ outcomes["pass"] = 4 /\ outcomes["fail"] = 1 /\ outcomes["error"] = 1
    /\ ratio = <<6, 10>>

====
